---- MODULE Spec2Model ----
(***************************************************************************)
(* Visit ledger and eligibility gates of the hospital visit backend.       *)
(*                                                                         *)
(*   src/models/Visit.js                  the Visit document and its       *)
(*                                        ledger methods                   *)
(*   src/middleware/paymentEligibility.js the two gates                    *)
(*   src/unnamed/part_001 (lines 1-545)   the /api/visits routes           *)
(*                                                                         *)
(* Money is a JavaScript Number.  The model draws prices, percentages and  *)
(* amounts from integers for which every product, quotient and sum the     *)
(* code forms is an integer, so that Number arithmetic is exact and \div   *)
(* is the code's division.                                                 *)
(***************************************************************************)
EXTENDS Integers, Sequences, FiniteSets, TLC

VARIABLES
    doc,          \* SpecLedger: one in-memory Visit document (new Visit(...))
    chargeCalls,  \* SpecLedger: the serviceData of every addServiceCharge call, in order
    paymentCalls, \* SpecLedger: the paymentData of every recordPayment call, in order
    ncalc,        \* SpecLedger: calculateFinancials runs since the last append
    visits,       \* Spec: the visits collection, _id = index
    last,         \* Spec: the last request handled and what was answered
    nreq,         \* Spec: the number of requests handled so far
    labTests,     \* SpecOrders: the labtests collection, in insertion order
    reqs,         \* SpecRace, SpecCreate: the requests in flight, by number
    persistence   \* SpecRace: how visit.save() writes a loaded document

vars ==
    <<doc, chargeCalls, paymentCalls, ncalc, visits, last, nreq, labTests,
      reqs, persistence>>

-----------------------------------------------------------------------------
(* Bounds and input domains *)

MaxCharges == 2
MaxPayments == 2
MaxCalc == 2

Prices == {50, 100}
Quantities == {1, 2}
Percentages == {0, 80}
Amounts == {30, 100}
PaymentTypes == {"consultation_fee", "service_payment"}

-----------------------------------------------------------------------------
(* The Visit document *)

\* Array.prototype.reduce((sum, x) => sum + x.f, 0) over the values f[1..n]
RECURSIVE Reduce(_, _)
Reduce(s, acc) == IF s = <<>> THEN acc ELSE Reduce(Tail(s), acc + Head(s))

Field(s, f) == [i \in 1..Len(s) |-> s[i][f]]

\* new Visit({patient, status, ...}): the schema defaults. prescriptions is
\* declared as a single ObjectId reference, not an array, and has no default:
\* it is undefined on every document
NewVisit(patient, status) ==
    [ visitId               |-> 0,
      patient               |-> patient,
      status                |-> status,
      isActive              |-> TRUE,
      labOrders             |-> <<>>,
      prescriptions         |-> "<undefined>",
      serviceCharges        |-> <<>>,
      paymentRecords        |-> <<>>,
      totalCharges          |-> 0,
      insuranceCoverage     |-> 0,
      patientResponsibility |-> 0,
      totalPaid             |-> 0,
      outstandingBalance    |-> 0,
      consultationFeePaid   |-> FALSE,
      consultationFeeAmount |-> 0,
      allServicesPaid       |-> FALSE ]

\* Variant: the totals are added to the stored ones instead of replacing them
calculateFinancialsAccumulating(d) ==
    LET pr == d.patientResponsibility
              + Reduce(Field(d.serviceCharges, "patientResponsibility"), 0)
        tp == Reduce(Field(d.paymentRecords, "amount"), 0)
    IN [d EXCEPT
          !.totalCharges = @ + Reduce(Field(d.serviceCharges, "totalPrice"), 0),
          !.insuranceCoverage = Reduce(Field(d.serviceCharges, "insuranceCoverage"), 0),
          !.patientResponsibility = pr,
          !.totalPaid = tp,
          !.outstandingBalance = pr - tp,
          !.allServicesPaid = (pr - tp <= 0)]

\* Variant: the balance is clamped at 0
calculateFinancialsClamped(d) ==
    LET pr == Reduce(Field(d.serviceCharges, "patientResponsibility"), 0)
        tp == Reduce(Field(d.paymentRecords, "amount"), 0)
        ob == IF pr - tp < 0 THEN 0 ELSE pr - tp
    IN [d EXCEPT
          !.totalCharges = Reduce(Field(d.serviceCharges, "totalPrice"), 0),
          !.insuranceCoverage = Reduce(Field(d.serviceCharges, "insuranceCoverage"), 0),
          !.patientResponsibility = pr,
          !.totalPaid = tp,
          !.outstandingBalance = ob,
          !.allServicesPaid = (ob <= 0)]

\* visitSchema.methods.calculateFinancials
calculateFinancials(d) ==
    LET pr == Reduce(Field(d.serviceCharges, "patientResponsibility"), 0)
        tp == Reduce(Field(d.paymentRecords, "amount"), 0)
    IN [d EXCEPT
          !.totalCharges = Reduce(Field(d.serviceCharges, "totalPrice"), 0),
          !.insuranceCoverage = Reduce(Field(d.serviceCharges, "insuranceCoverage"), 0),
          !.patientResponsibility = pr,
          !.totalPaid = tp,
          !.outstandingBalance = pr - tp,
          !.allServicesPaid = (pr - tp <= 0)]

\* The sub-document addServiceCharge pushes
Charge(sd, totalPrice, insuranceCoverage) ==
    [ serviceType           |-> sd.serviceType,
      price                 |-> sd.price,
      quantity              |-> sd.quantity,
      totalPrice            |-> totalPrice,
      isCoveredByInsurance  |-> sd.hasInsurance,
      insuranceCoverage     |-> insuranceCoverage,
      patientResponsibility |-> totalPrice - insuranceCoverage,
      paymentStatus         |-> IF sd.hasInsurance THEN "insurance_claimed" ELSE "pending",
      paidAmount            |-> 0 ]

\* Variant: the quantity is left out of totalPrice
addServiceChargeNoQuantity(d, sd) ==
    LET totalPrice == sd.price
        insuranceCoverage ==
            IF sd.hasInsurance
            THEN (totalPrice * sd.insuranceCoveragePercentage) \div 100
            ELSE 0
    IN calculateFinancials(
         [d EXCEPT !.serviceCharges =
                       Append(@, Charge(sd, totalPrice, insuranceCoverage))])

\* Variant: the percentage is applied whatever hasInsurance says
addServiceChargeIgnoringFlag(d, sd) ==
    LET totalPrice == sd.price * sd.quantity
        insuranceCoverage == (totalPrice * sd.insuranceCoveragePercentage) \div 100
    IN calculateFinancials(
         [d EXCEPT !.serviceCharges =
                       Append(@, Charge(sd, totalPrice, insuranceCoverage))])

\* visitSchema.methods.addServiceCharge
addServiceCharge(d, sd) ==
    LET totalPrice == sd.price * sd.quantity
        insuranceCoverage ==
            IF sd.hasInsurance
            THEN (totalPrice * sd.insuranceCoveragePercentage) \div 100
            ELSE 0
    IN calculateFinancials(
         [d EXCEPT !.serviceCharges =
                       Append(@, Charge(sd, totalPrice, insuranceCoverage))])

\* Variant: the flag follows the type of the payment just recorded
recordPaymentFlagFollowsType(d, pd) ==
    LET pushed == [d EXCEPT !.paymentRecords =
                       Append(@, [ amount        |-> pd.amount,
                                   paymentMethod |-> pd.paymentMethod,
                                   paymentType   |-> pd.paymentType ])]
        marked == IF pd.paymentType = "consultation_fee"
                  THEN [pushed EXCEPT !.consultationFeePaid = TRUE,
                                      !.consultationFeeAmount = pd.amount]
                  ELSE [pushed EXCEPT !.consultationFeePaid = FALSE]
    IN calculateFinancials(marked)

\* Variant: the payment is allocated to the charges that are still pending
recordPaymentAllocating(d, pd) ==
    LET pushed == [d EXCEPT !.paymentRecords =
                       Append(@, [ amount        |-> pd.amount,
                                   paymentMethod |-> pd.paymentMethod,
                                   paymentType   |-> pd.paymentType ])]
        marked == IF pd.paymentType = "consultation_fee"
                  THEN [pushed EXCEPT !.consultationFeePaid = TRUE,
                                      !.consultationFeeAmount = pd.amount]
                  ELSE pushed
        settled == [marked EXCEPT !.serviceCharges =
                       [i \in 1..Len(@) |->
                           IF @[i].paymentStatus = "pending"
                           THEN [@[i] EXCEPT !.paymentStatus = "paid",
                                             !.paidAmount = pd.amount]
                           ELSE @[i]]]
    IN calculateFinancials(settled)

\* visitSchema.methods.recordPayment
recordPayment(d, pd) ==
    LET pushed == [d EXCEPT !.paymentRecords =
                       Append(@, [ amount        |-> pd.amount,
                                   paymentMethod |-> pd.paymentMethod,
                                   paymentType   |-> pd.paymentType ])]
        marked == IF pd.paymentType = "consultation_fee"
                  THEN [pushed EXCEPT !.consultationFeePaid = TRUE,
                                      !.consultationFeeAmount = pd.amount]
                  ELSE pushed
    IN calculateFinancials(marked)

-----------------------------------------------------------------------------
(* SpecLedger: the ledger methods called on one document *)

ServiceData ==
    [ serviceType : {"lab_test"},
      price : Prices,
      quantity : Quantities,
      hasInsurance : BOOLEAN,
      insuranceCoveragePercentage : Percentages ]

PaymentData ==
    [ amount : Amounts, paymentMethod : {"cash"}, paymentType : PaymentTypes ]

raceVars == <<reqs, persistence>>
routeVars == <<visits, last, nreq, labTests, reqs, persistence>>
ledgerVars == <<doc, chargeCalls, paymentCalls, ncalc>>


\* JavaScript undefined, for a string-valued field that is absent
Undefined == "<undefined>"

\* A gate that was not run
NoGate ==
    [ ran |-> FALSE, id |-> 0, code |-> 0, requiresPayment |-> FALSE,
      visitId |-> 0, visit |-> 0, hasInsurance |-> FALSE ]

\* A request without the body fields of the billing routes; lookupThrows
\* tells whether the catalogue query of the request threw
NoBody ==
    [ amountGiven |-> FALSE, amount |-> 0, paymentMethod |-> Undefined,
      paymentType |-> Undefined, medication |-> Undefined,
      testName |-> Undefined, lookupThrows |-> FALSE,
      visit |-> 0, visitId |-> 0 ]

\* What a request left behind: its route, path id (0: the route has none) and
\* boolean body flag, the json() calls' status codes in order, the two gates'
\* results, and the _id of the visit the handler saved (0: none); for
\* POST /api/visits also the body's patientId and the visit ID quoted in the
\* message (0: none); for the billing routes also the request body
Answer(route, id, flag, codes, elig, active, saved) ==
    [ route |-> route, id |-> id, flag |-> flag, codes |-> codes,
      elig |-> elig, active |-> active, saved |-> saved,
      patient |-> "", ref |-> 0, body |-> NoBody ]

InitLedgerVars ==
    /\ doc = NewVisit("p1", "Pending Payment")
    /\ chargeCalls = <<>>
    /\ paymentCalls = <<>>
    /\ ncalc = 0

InitRouteVars ==
    /\ visits = <<>>
    /\ last = Answer("none", 0, FALSE, <<>>, NoGate, NoGate, 0)
    /\ nreq = 0
    /\ labTests = <<>>
    /\ reqs = <<>>
    /\ persistence = "overwrite"

Init == InitLedgerVars /\ InitRouteVars

AddServiceCharge ==
    /\ Len(doc.serviceCharges) < MaxCharges
    /\ \E sd \in ServiceData :
          /\ doc' = addServiceCharge(doc, sd)
          /\ chargeCalls' = Append(chargeCalls, sd)
    /\ ncalc' = 1
    /\ UNCHANGED <<paymentCalls, routeVars>>

RecordPayment ==
    /\ Len(doc.paymentRecords) < MaxPayments
    /\ \E pd \in PaymentData :
          /\ doc' = recordPayment(doc, pd)
          /\ paymentCalls' = Append(paymentCalls, pd)
    /\ ncalc' = 1
    /\ UNCHANGED <<chargeCalls, routeVars>>

CalculateFinancials ==
    /\ ncalc < MaxCalc
    /\ doc' = calculateFinancials(doc)
    /\ ncalc' = ncalc + 1
    /\ UNCHANGED <<chargeCalls, paymentCalls, routeVars>>

NextLedger == AddServiceCharge \/ RecordPayment \/ CalculateFinancials

SpecLedger == Init /\ [][NextLedger]_vars

-----------------------------------------------------------------------------
(* Spec: the /api/visits routes, one request handled at a time *)

MaxRequests == 4

Statuses == {"Pending Payment", "In Queue", "In-Progress", "completed"}

\* !!x for a string-valued x
Truthy(x) == x \notin {"", Undefined}

\* The patients collection: _id -> the insurance sub-document
Patients ==
    [ p1 |-> [present |-> TRUE,  provider |-> "NHIF"],
      p2 |-> [present |-> TRUE,  provider |-> ""],
      p3 |-> [present |-> FALSE, provider |-> Undefined] ]

PatientIds == DOMAIN Patients

\* patient.insurance?.provider
Provider(p) ==
    IF Patients[p].present THEN Patients[p].provider ELSE Undefined

\* The services collection: Service.findOne({name, category: 'Lab Test'}).price,
\* 0 standing for no such service
ServicePrice(testName) ==
    IF testName = "CBC" THEN 50 ELSE 0

TestNames == {"CBC", "Unlisted"}

\* Visit.findById(id): ids are 1.., 0 is an absent request field
Exists(id) == id \in DOMAIN visits

\* The result of a gate: code = 0 when next() was called, and then visit (and
\* hasInsurance) are what it attached to the request
\* Variant: Pending Payment is denied whatever the patient's insurance
checkPaymentEligibilityStatusOnly(req) ==
    LET visitId == IF req.body.visit # 0 THEN req.body.visit
                   ELSE IF req.body.visitId # 0 THEN req.body.visitId
                   ELSE req.params.id
        g == [NoGate EXCEPT !.ran = TRUE, !.id = visitId]
    IN IF visitId = 0 THEN [g EXCEPT !.code = 400]
       ELSE IF ~Exists(visitId) THEN [g EXCEPT !.code = 404]
       ELSE IF visits[visitId].status = "Pending Payment"
            THEN [g EXCEPT !.code = 403, !.requiresPayment = TRUE,
                           !.visitId = visits[visitId].visitId]
            ELSE [g EXCEPT !.visit = visitId,
                           !.hasInsurance = Truthy(Provider(visits[visitId].patient))]

checkPaymentEligibility(req) ==
    LET visitId == IF req.body.visit # 0 THEN req.body.visit
                   ELSE IF req.body.visitId # 0 THEN req.body.visitId
                   ELSE req.params.id
        g == [NoGate EXCEPT !.ran = TRUE, !.id = visitId]
    IN IF visitId = 0 THEN [g EXCEPT !.code = 400]
       ELSE IF ~Exists(visitId) THEN [g EXCEPT !.code = 404]
       ELSE LET visit == visits[visitId]
                hasInsurance == Truthy(Provider(visit.patient))
            IN IF ~hasInsurance /\ visit.status = "Pending Payment"
               THEN [g EXCEPT !.code = 403, !.requiresPayment = TRUE,
                              !.visitId = visit.visitId]
               ELSE [g EXCEPT !.visit = visitId, !.hasInsurance = hasInsurance]

\* Variant: the visit only has to exist
checkVisitActiveExistsOnly(req) ==
    LET visitId == IF req.params.id # 0 THEN req.params.id
                   ELSE IF req.body.visit # 0 THEN req.body.visit
                   ELSE req.body.visitId
        g == [NoGate EXCEPT !.ran = TRUE, !.id = visitId]
    IN IF visitId = 0 THEN [g EXCEPT !.code = 400]
       ELSE IF ~Exists(visitId) THEN [g EXCEPT !.code = 404]
       ELSE [g EXCEPT !.visit = visitId]

checkVisitActive(req) ==
    LET visitId == IF req.params.id # 0 THEN req.params.id
                   ELSE IF req.body.visit # 0 THEN req.body.visit
                   ELSE req.body.visitId
        g == [NoGate EXCEPT !.ran = TRUE, !.id = visitId]
    IN IF visitId = 0 THEN [g EXCEPT !.code = 400]
       ELSE IF ~Exists(visitId) THEN [g EXCEPT !.code = 404]
       ELSE IF ~visits[visitId].isActive THEN [g EXCEPT !.code = 400]
       ELSE [g EXCEPT !.visit = visitId]

\* visit.save() of a loaded document; a new one goes through the pre-save hook
Save(id, d) == [visits EXCEPT ![id] = d]

\* pre('save'): visitId from countDocuments() + 1 (the sequence number; the
\* prefix V<yy> and the zero padding do not depend on the collection)
SaveNew(d) == Append(visits, [d EXCEPT !.visitId = Len(visits) + 1])

\* Visit.findOne({patient, isActive: true}): the documents that match
\* Variant: the query takes a visit for active while it is not completed
ActiveVisitOfByStatus(p) ==
    {i \in DOMAIN visits :
        visits[i].patient = p /\ visits[i].status # "completed"}

ActiveVisitOf(p) ==
    {i \in DOMAIN visits : visits[i].patient = p /\ visits[i].isActive}

\* findOne answers the first match in insertion order
First(S) == CHOOSE i \in S : \A j \in S : i <= j

\* One more request is taken up; the ledger-method variables are not part of
\* it, and the routes of the visits router do not touch the labtests collection
Handled ==
    /\ nreq < MaxRequests
    /\ nreq' = nreq + 1
    /\ UNCHANGED ledgerVars
    /\ UNCHANGED labTests
    /\ UNCHANGED raceVars

\* POST /api/visits
StatusInputs == Statuses \cup {Undefined, "bogus"}

CreateVisit ==
    /\ Handled
    /\ \E patientId \in PatientIds \cup {"p9"}, status \in StatusInputs :
       IF ActiveVisitOf(patientId) # {}
       THEN \* `${activeVisit.visitId || activeVisit._id}` in the message
            LET activeVisit == visits[First(ActiveVisitOf(patientId))]
            IN /\ last' = [Answer("create", 0, FALSE, <<400>>, NoGate, NoGate, 0)
                             EXCEPT !.patient = patientId,
                                    !.ref = activeVisit.visitId]
               /\ UNCHANGED visits
       ELSE IF patientId \notin PatientIds
       THEN /\ last' = [Answer("create", 0, FALSE, <<404>>, NoGate, NoGate, 0)
                          EXCEPT !.patient = patientId]
            /\ UNCHANGED visits
       ELSE LET hasInsurance == Truthy(Provider(patientId))
                visitStatus  == IF hasInsurance THEN "In Queue"
                                ELSE IF Truthy(status) THEN status
                                ELSE "Pending Payment"
            IN IF visitStatus \notin Statuses
               THEN \* newVisit.save() rejects with a ValidationError
                    /\ last' = [Answer("create", 0, FALSE, <<400>>,
                                       NoGate, NoGate, 0)
                                  EXCEPT !.patient = patientId]
                    /\ UNCHANGED visits
               ELSE /\ visits' = SaveNew(NewVisit(patientId, visitStatus))
                    /\ last' = [Answer("create", 0, FALSE, <<201>>, NoGate,
                                       NoGate, Len(visits) + 1)
                                  EXCEPT !.patient = patientId]

\* POST /api/visits/:id/lab-orders
\* A path id names a stored visit or, as Len(visits) + 1, none; a body field
\* is absent (0) or names a stored visit
LabOrderRequests ==
    [ params : [id : 1..Len(visits) + 1],
      body : [ visit : 0..Len(visits), visitId : 0..Len(visits),
               testName : TestNames ],
      lookupThrows : BOOLEAN ]

AddLabOrder ==
    /\ Handled
    /\ \E req \in LabOrderRequests :
       LET elig == checkPaymentEligibility(req)
           act  == checkVisitActive(req)
       IN IF elig.code # 0
          THEN /\ last' = Answer("lab-orders", req.params.id, FALSE,
                                 <<elig.code>>, elig, NoGate, 0)
               /\ UNCHANGED visits
          ELSE IF act.code # 0
          THEN /\ last' = Answer("lab-orders", req.params.id, FALSE,
                                 <<act.code>>, elig, act, 0)
               /\ UNCHANGED visits
          ELSE LET visit == visits[act.visit]
                   hasInsurance == elig.hasInsurance
                   servicePrice == IF req.lookupThrows THEN 0
                                   ELSE ServicePrice(req.body.testName)
                   newLabOrder ==
                       [ testName      |-> req.body.testName,
                         status        |-> "Pending",
                         price         |-> servicePrice,
                         paymentStatus |-> IF hasInsurance
                                           THEN "insurance_claimed"
                                           ELSE "pending" ]
                   pushed == [visit EXCEPT !.labOrders = Append(@, newLabOrder)]
                   charged ==
                       IF servicePrice > 0
                       THEN addServiceCharge(pushed,
                              [ serviceType  |-> "lab_test",
                                price        |-> servicePrice,
                                quantity     |-> 1,
                                hasInsurance |-> hasInsurance,
                                insuranceCoveragePercentage |->
                                    IF hasInsurance THEN 80 ELSE 0 ])
                       ELSE pushed
               IN /\ visits' = Save(act.visit, charged)
                  /\ last' = Answer("lab-orders", req.params.id, FALSE,
                                    <<201>>, elig, act, act.visit)

\* PATCH /api/visits/:id/payment-status, once the visit is loaded: the status
\* code answered and the document as saved (or left)
\* Variant: the current status is not looked at
confirmPaymentOnFlagAlone(visit, paymentConfirmed) ==
    IF paymentConfirmed
    THEN [ code |-> 200,
           visit |-> [visit EXCEPT !.status = "In Queue",
                                   !.consultationFeePaid = TRUE] ]
    ELSE [ code |-> 400, visit |-> visit ]

confirmPayment(visit, paymentConfirmed) ==
    IF visit.status = "Pending Payment" /\ paymentConfirmed
    THEN [ code |-> 200,
           visit |-> [visit EXCEPT !.status = "In Queue",
                                   !.consultationFeePaid = TRUE] ]
    ELSE [ code |-> 400, visit |-> visit ]

ConfirmPayment ==
    /\ Handled
    /\ \E id \in 1..Len(visits) + 1, paymentConfirmed \in BOOLEAN :
       IF ~Exists(id)
       THEN /\ last' = Answer("payment-status", id, paymentConfirmed, <<404>>,
                              NoGate, NoGate, 0)
            /\ UNCHANGED visits
       ELSE LET r == confirmPayment(visits[id], paymentConfirmed)
            IN /\ visits' = IF r.code = 200 THEN Save(id, r.visit) ELSE visits
               /\ last' = Answer("payment-status", id, paymentConfirmed,
                                 <<r.code>>, NoGate, NoGate,
                                 IF r.code = 200 THEN id ELSE 0)

\* PATCH /api/visits/:id/end-visit
EndVisit ==
    /\ Handled
    /\ \E id \in 1..Len(visits) + 1 :
       IF ~Exists(id)
       THEN \* the 404 is not returned: visit.isActive then throws on null and
            \* the catch block calls json() again
            /\ last' = Answer("end-visit", id, FALSE, <<404, 500>>,
                              NoGate, NoGate, 0)
            /\ UNCHANGED visits
       ELSE /\ visits' = Save(id, [visits[id] EXCEPT !.isActive = ~@])
            /\ last' = Answer("end-visit", id, FALSE, <<200>>, NoGate, NoGate, id)

\* PUT /api/visits/:id/clinical, for a body that carries at most a status
UpdateClinical ==
    /\ Handled
    /\ \E id \in 1..Len(visits) + 1, status \in StatusInputs :
       IF ~Exists(id)
       THEN /\ last' = Answer("clinical", id, FALSE, <<404>>, NoGate, NoGate, 0)
            /\ UNCHANGED visits
       ELSE IF Truthy(status) /\ status \notin Statuses
       THEN \* visit.save() rejects with a ValidationError
            /\ last' = Answer("clinical", id, FALSE, <<400>>, NoGate, NoGate, 0)
            /\ UNCHANGED visits
       ELSE /\ visits' = Save(id, IF Truthy(status)
                                  THEN [visits[id] EXCEPT !.status = status]
                                  ELSE visits[id])
            /\ last' = Answer("clinical", id, FALSE, <<200>>, NoGate, NoGate, id)

Next ==
    \/ CreateVisit
    \/ AddLabOrder
    \/ ConfirmPayment
    \/ EndVisit
    \/ UpdateClinical

Spec == Init /\ [][Next]_vars

-----------------------------------------------------------------------------
(* Claims about the ledger methods (SpecLedger) *)

CallTotal(sd) == sd.price * sd.quantity

\* The derived fields of a document blanked: what is left is every other field
NonDerived(d) ==
    [d EXCEPT !.totalCharges = 0, !.insuranceCoverage = 0,
              !.patientResponsibility = 0, !.totalPaid = 0,
              !.outstandingBalance = 0, !.allServicesPaid = FALSE]

\* C1: after any sequence of addServiceCharge and recordPayment calls,
\* totalCharges is the sum over the addServiceCharge calls of price x quantity,
\* which is also the sum of totalPrice over serviceCharges.
C1_TotalChargesIsSumOfCalls ==
    /\ doc.totalCharges =
          Reduce([i \in 1..Len(chargeCalls) |-> CallTotal(chargeCalls[i])], 0)
    /\ doc.totalCharges = Reduce(Field(doc.serviceCharges, "totalPrice"), 0)

C1_Witness ==
    /\ Len(chargeCalls) = 2
    /\ Len(paymentCalls) >= 1
    /\ chargeCalls[1].quantity = 2
    /\ chargeCalls[1].price = 100
    /\ chargeCalls[2].price = 50
    /\ doc.totalCharges = 250

\* C2: every appended charge has insuranceCoverage = totalPrice x pct / 100 when
\* hasInsurance and 0 otherwise, patientResponsibility = totalPrice -
\* insuranceCoverage, paymentStatus insurance_claimed if insured else pending; the
\* visit's insuranceCoverage and patientResponsibility are the sums of them.
C2_InsuranceSplit ==
    /\ Len(doc.serviceCharges) = Len(chargeCalls)
    /\ \A i \in 1..Len(chargeCalls) :
          LET sd == chargeCalls[i]
              c  == doc.serviceCharges[i]
          IN /\ c.totalPrice = CallTotal(sd)
             /\ IF sd.hasInsurance
                THEN /\ c.insuranceCoverage * 100 =
                            CallTotal(sd) * sd.insuranceCoveragePercentage
                     /\ c.paymentStatus = "insurance_claimed"
                ELSE /\ c.insuranceCoverage = 0
                     /\ c.paymentStatus = "pending"
             /\ c.patientResponsibility = c.totalPrice - c.insuranceCoverage
    /\ doc.insuranceCoverage * 100 =
          Reduce([i \in 1..Len(chargeCalls) |->
                     IF chargeCalls[i].hasInsurance
                     THEN CallTotal(chargeCalls[i])
                          * chargeCalls[i].insuranceCoveragePercentage
                     ELSE 0], 0)
    /\ doc.patientResponsibility * 100 =
          Reduce([i \in 1..Len(chargeCalls) |->
                     IF chargeCalls[i].hasInsurance
                     THEN CallTotal(chargeCalls[i])
                          * (100 - chargeCalls[i].insuranceCoveragePercentage)
                     ELSE CallTotal(chargeCalls[i]) * 100], 0)

C2_Witness ==
    /\ Len(chargeCalls) = 2
    /\ chargeCalls[1].hasInsurance
    /\ chargeCalls[1].insuranceCoveragePercentage = 80
    /\ ~chargeCalls[2].hasInsurance
    /\ chargeCalls[2].insuranceCoveragePercentage = 80
    /\ doc.insuranceCoverage = 80
    /\ doc.patientResponsibility = 70

\* C3: totalPaid is the sum of the recorded payment amounts and
\* outstandingBalance is patientResponsibility - totalPaid, negative (not clamped
\* to 0) when the payments exceed the patient responsibility.
C3_BalanceIsResponsibilityMinusPaid ==
    /\ doc.totalPaid =
          Reduce([i \in 1..Len(paymentCalls) |-> paymentCalls[i].amount], 0)
    /\ doc.outstandingBalance = doc.patientResponsibility - doc.totalPaid

C3_Witness ==
    /\ Len(paymentCalls) = 2
    /\ Len(chargeCalls) >= 1
    /\ doc.patientResponsibility = 10
    /\ doc.totalPaid = 130
    /\ doc.outstandingBalance = -120

\* C5: a calculateFinancials call changes nothing but the six derived fields,
\* and a call that follows another one with no append in between changes nothing
\* at all.
C5_RecomputeIdempotent ==
    [][ ( /\ ncalc' = ncalc + 1
          /\ chargeCalls' = chargeCalls
          /\ paymentCalls' = paymentCalls )
        => ( /\ NonDerived(doc') = NonDerived(doc)
             /\ (ncalc >= 1 => doc' = doc) ) ]_vars

C5_Witness ==
    /\ ncalc = 2
    /\ Len(doc.serviceCharges) = 2
    /\ Len(doc.paymentRecords) = 1
    /\ doc.totalCharges > 0
    /\ doc.totalPaid > 0

-----------------------------------------------------------------------------
(* Claims about the routes (Spec) *)

\* The patient has a non-empty insurance provider
Insured(p) == Patients[p].present /\ Patients[p].provider # ""

Unpaid(v) == ~Insured(v.patient) /\ v.status = "Pending Payment"

\* A step that handles a request of the route
Handles(route) == nreq' = nreq + 1 /\ last'.route = route

\* C4: in every reachable state of a visit, from its creation on,
\* allServicesPaid is true iff outstandingBalance <= 0.
C4_AllServicesPaidIffNoBalance ==
    \A i \in DOMAIN visits :
       visits[i].allServicesPaid <=> (visits[i].outstandingBalance <= 0)

\* C6: for an existing visit, checkPaymentEligibility answers 403 with
\* requiresPayment and the visit's visitId, and does not call next, exactly when
\* the patient has no non-empty provider and the status is Pending Payment;
\* otherwise it calls next with the visit and hasInsurance attached.
C6_GateDeniesExactlyUnpaidUninsured ==
    [][ (Handles("lab-orders") /\ Exists(last'.elig.id))
        => LET g == last'.elig
               v == visits[g.id]
           IN IF Unpaid(v)
              THEN /\ g.code = 403
                   /\ g.requiresPayment
                   /\ g.visitId = v.visitId
                   /\ last'.codes = <<403>>
                   /\ ~last'.active.ran
                   /\ visits' = visits
              ELSE /\ g.code = 0
                   /\ ~g.requiresPayment
                   /\ g.visit = g.id
                   /\ g.hasInsurance = Insured(v.patient)
                   /\ last'.active.ran ]_vars

C6_Witness ==
    /\ last.route = "lab-orders"
    /\ last.elig.code = 403
    /\ last.elig.id \in DOMAIN visits
    /\ visits[last.elig.id].patient = "p2"
    /\ \E i \in DOMAIN visits :
          visits[i].status = "Pending Payment" /\ visits[i].patient = "p1"

\* C7: the lab-order route appends a lab order (and its charge) to a visit V
\* only if V is active and not (uninsured and Pending Payment): V is the visit
\* both gates checked, and the charge's insurance flag is that of V's patient.
C7_OrderOnlyOnCheckedVisit ==
    [][ Handles("lab-orders")
        => \A i \in DOMAIN visits :
              Len(visits'[i].labOrders) > Len(visits[i].labOrders)
              => /\ visits[i].isActive
                 /\ ~Unpaid(visits[i])
                 /\ last'.elig.visit = i
                 /\ last'.active.visit = i
                 /\ \A k \in DOMAIN visits'[i].serviceCharges :
                       k \notin DOMAIN visits[i].serviceCharges
                       => visits'[i].serviceCharges[k].isCoveredByInsurance
                          = Insured(visits[i].patient) ]_vars

\* C8: a successful create-visit persists a visit whose status is In Queue when
\* the patient has a non-empty insurance provider and Pending Payment when not,
\* whatever the other request fields.
C8_InitialStatusFromInsurance ==
    (last.route = "create" /\ last.codes = <<201>>)
    => visits[last.saved].status =
          IF Insured(visits[last.saved].patient) THEN "In Queue"
          ELSE "Pending Payment"

\* C9: on an existing visit, confirm-payment sets the status to In Queue when the
\* status is Pending Payment and the flag is set, and answers 200; in every other
\* case it answers 400 and the stored visits are unchanged.  It never writes any
\* other status.  (No visit: 404, nothing changed.)
C9_ConfirmOnlyFromPendingPayment ==
    [][ Handles("payment-status")
        => LET id == last'.id
           IN IF ~Exists(id)
              THEN last'.codes = <<404>> /\ visits' = visits
              ELSE IF visits[id].status = "Pending Payment" /\ last'.flag
              THEN /\ last'.codes = <<200>>
                   /\ visits'[id].status = "In Queue"
                   /\ \A i \in DOMAIN visits : i # id => visits'[i] = visits[i]
                   /\ DOMAIN visits' = DOMAIN visits
              ELSE /\ last'.codes = <<400>>
                   /\ visits' = visits ]_vars

C9_Witness ==
    /\ last.route = "payment-status"
    /\ last.codes = <<200>>
    /\ visits[last.id].status = "In Queue"
    /\ visits[last.id].consultationFeePaid
    /\ ~Insured(visits[last.id].patient)

\* C10: after any sequence of create-visit and end-visit requests handled one at
\* a time, each patient has at most one visit with isActive = true.
C10_OneActiveVisitPerPatient ==
    \A p \in PatientIds : Cardinality(ActiveVisitOf(p)) <= 1

\* C11: a create-visit request for a patient who has an active visit is
\* answered 400 with a message that quotes the visit ID of an active visit of
\* that patient, and the stored visits are left as they were
HasActiveVisit(p) ==
    \E i \in DOMAIN visits : visits[i].patient = p /\ visits[i].isActive

C11_DuplicateActiveVisitRejected ==
    [][ Handles("create") /\ HasActiveVisit(last'.patient)
        => /\ last'.codes = <<400>>
           /\ \E i \in DOMAIN visits :
                 /\ visits[i].patient = last'.patient
                 /\ visits[i].isActive
                 /\ last'.ref = visits[i].visitId
           /\ visits' = visits ]_vars

C11_Witness ==
    /\ last.route = "create"
    /\ last.codes = <<400>>
    /\ HasActiveVisit(last.patient)
    /\ last.ref \in {visits[i].visitId : i \in DOMAIN visits}
    /\ Len(visits) >= 2

-----------------------------------------------------------------------------
(* Further claims about the ledger methods (SpecLedger) *)

\* The step is a recordPayment call, resp. an addServiceCharge call
PaymentStep == Len(paymentCalls') = Len(paymentCalls) + 1
ChargeStep == Len(chargeCalls') = Len(chargeCalls) + 1

\* s is t with exactly one record appended
ExtendsByOne(s, t) == Len(s) = Len(t) + 1 /\ SubSeq(s, 1, Len(t)) = t

\* C14: recordPayment with paymentType consultation_fee sets
\* consultationFeePaid and stores the payment's amount as
\* consultationFeeAmount; with any other type it leaves both as they were;
\* no ledger method takes consultationFeePaid from true back to false
C14_ConsultationFeeFlag ==
    [][ /\ PaymentStep =>
             LET pd == paymentCalls'[Len(paymentCalls')]
             IN IF pd.paymentType = "consultation_fee"
                THEN /\ doc'.consultationFeePaid = TRUE
                     /\ doc'.consultationFeeAmount = pd.amount
                ELSE /\ doc'.consultationFeePaid = doc.consultationFeePaid
                     /\ doc'.consultationFeeAmount = doc.consultationFeeAmount
        /\ doc.consultationFeePaid => doc'.consultationFeePaid ]_vars

C14_Witness ==
    /\ Len(paymentCalls) = 2
    /\ paymentCalls[1].paymentType = "consultation_fee"
    /\ paymentCalls[2].paymentType = "service_payment"
    /\ paymentCalls[1].amount # paymentCalls[2].amount
    /\ doc.consultationFeePaid
    /\ doc.consultationFeeAmount = paymentCalls[1].amount
    /\ Len(doc.serviceCharges) >= 1

\* C20: addServiceCharge appends exactly one service charge and leaves the
\* payment records alone; recordPayment appends exactly one payment record
\* and leaves every service charge, the status and isActive alone; no step
\* removes or alters a record that is already there
C20_AppendOnly ==
    [][ /\ ChargeStep =>
             /\ ExtendsByOne(doc'.serviceCharges, doc.serviceCharges)
             /\ doc'.paymentRecords = doc.paymentRecords
        /\ PaymentStep =>
             /\ ExtendsByOne(doc'.paymentRecords, doc.paymentRecords)
             /\ doc'.serviceCharges = doc.serviceCharges
             /\ doc'.status = doc.status
             /\ doc'.isActive = doc.isActive
        /\ Len(doc'.serviceCharges) >= Len(doc.serviceCharges)
        /\ SubSeq(doc'.serviceCharges, 1, Len(doc.serviceCharges))
              = doc.serviceCharges
        /\ Len(doc'.paymentRecords) >= Len(doc.paymentRecords)
        /\ SubSeq(doc'.paymentRecords, 1, Len(doc.paymentRecords))
              = doc.paymentRecords ]_vars

C20_Witness ==
    /\ Len(doc.serviceCharges) = 2
    /\ Len(doc.paymentRecords) = 2
    /\ doc.serviceCharges[1].paymentStatus = "pending"
    /\ doc.serviceCharges[1].paidAmount = 0
    /\ doc.totalPaid >= doc.serviceCharges[1].patientResponsibility

-----------------------------------------------------------------------------
(* SpecBilling: creating visits, prescribing and recording payments *)

MaxBilling == 3

\* One more request of the billing routes is taken up
Billed == nreq < MaxBilling /\ Handled

\* The enums of paymentRecordSchema
PaymentMethodEnum ==
    {"cash", "card", "mobile_money", "insurance", "bank_transfer"}
PaymentTypeEnum ==
    {"consultation_fee", "service_payment", "deposit", "full_payment"}

\* The bodies of POST /:id/payments: amount is absent (amountGiven false) or
\* a Number, the two strings are absent, valid or outside the enum
PaymentBodies ==
    { b \in [ amountGiven : BOOLEAN, amount : {0 - 10, 0, 30},
              paymentMethod : {Undefined, "cash", "bogus"},
              paymentType : {Undefined, "consultation_fee",
                             "service_payment", "bogus"},
              medication : {Undefined}, testName : {Undefined},
              lookupThrows : {FALSE}, visit : {0}, visitId : {0} ] :
        ~b.amountGiven => b.amount = 0 }

\* POST /:id/payments once the visit is loaded: the status code answered and
\* the document as stored afterwards
\* Variant: no test for missing fields, and the save does not validate
recordPaymentRequestUnvalidated(visit, body) ==
    [ code |-> 201,
      visit |-> recordPayment(visit, [ amount |-> body.amount,
                                       paymentMethod |-> body.paymentMethod,
                                       paymentType |-> body.paymentType ]) ]

recordPaymentRequest(visit, body) ==
    IF \/ ~body.amountGiven \/ body.amount = 0     \* !amount
       \/ ~Truthy(body.paymentMethod)
       \/ ~Truthy(body.paymentType)
    THEN [ code |-> 400, visit |-> visit ]
    ELSE LET paid == recordPayment(visit,
                       [ amount |-> body.amount,
                         paymentMethod |-> body.paymentMethod,
                         paymentType |-> body.paymentType ])
         IN IF \/ body.paymentMethod \notin PaymentMethodEnum
               \/ body.paymentType \notin PaymentTypeEnum
            THEN \* visit.save() rejects with a ValidationError
                 [ code |-> 400, visit |-> visit ]
            ELSE [ code |-> 201, visit |-> paid ]

RecordPaymentRequest ==
    /\ Billed
    /\ \E id \in 1..Len(visits) + 1, body \in PaymentBodies :
       IF ~Exists(id)
       THEN /\ last' = [Answer("payments", id, FALSE, <<404>>, NoGate, NoGate, 0)
                          EXCEPT !.body = body]
            /\ UNCHANGED visits
       ELSE LET r == recordPaymentRequest(visits[id], body)
            IN /\ visits' = IF r.code = 201 THEN Save(id, r.visit) ELSE visits
               /\ last' = [Answer("payments", id, FALSE, <<r.code>>, NoGate,
                                  NoGate, IF r.code = 201 THEN id ELSE 0)
                             EXCEPT !.body = body]

\* Service.findOne({name: medication, $or: [Medication, Pharmacy]}).price,
\* 0 standing for no such service
MedicationPrice(medication) ==
    IF medication = "Amoxicillin" THEN 100 ELSE 0

Medications == {"Amoxicillin", "Unlisted"}

PrescriptionRequests ==
    [ params : [id : 1..Len(visits) + 1],
      body : [ visit : 0..Len(visits), visitId : 0..Len(visits),
               medication : Medications ],
      lookupThrows : BOOLEAN ]

\* POST /api/visits/:id/prescriptions
AddPrescription ==
    /\ Billed
    /\ \E req \in PrescriptionRequests :
       LET elig == checkPaymentEligibility(req)
           act  == checkVisitActive(req)
           body == [NoBody EXCEPT !.medication = req.body.medication,
                                  !.lookupThrows = req.lookupThrows]
       IN IF elig.code # 0
          THEN /\ last' = [Answer("prescriptions", req.params.id, FALSE,
                                  <<elig.code>>, elig, NoGate, 0)
                             EXCEPT !.body = body]
               /\ UNCHANGED visits
          ELSE IF act.code # 0
          THEN /\ last' = [Answer("prescriptions", req.params.id, FALSE,
                                  <<act.code>>, elig, act, 0)
                             EXCEPT !.body = body]
               /\ UNCHANGED visits
          ELSE LET visit == visits[act.visit]
                   hasInsurance == elig.hasInsurance
                   medicationPrice ==
                       IF req.lookupThrows THEN 0
                       ELSE MedicationPrice(req.body.medication)
                   newPrescription ==
                       [ medication    |-> req.body.medication,
                         price         |-> medicationPrice,
                         paymentStatus |-> IF hasInsurance
                                           THEN "insurance_claimed"
                                           ELSE "pending" ]
               IN IF visit.prescriptions = Undefined
                  THEN \* visit.prescriptions.push throws a TypeError, which
                       \* the catch block answers
                       /\ last' = [Answer("prescriptions", req.params.id, FALSE,
                                          <<400>>, elig, act, 0)
                                     EXCEPT !.body = body]
                       /\ UNCHANGED visits
                  ELSE LET pushed == [visit EXCEPT !.prescriptions =
                                         Append(@, newPrescription)]
                           charged ==
                               IF medicationPrice > 0
                               THEN addServiceCharge(pushed,
                                      [ serviceType  |-> "prescription",
                                        price        |-> medicationPrice,
                                        quantity     |-> 1,
                                        hasInsurance |-> hasInsurance,
                                        insuranceCoveragePercentage |->
                                            IF hasInsurance THEN 70 ELSE 0 ])
                               ELSE pushed
                       IN /\ visits' = Save(act.visit, charged)
                          /\ last' = [Answer("prescriptions", req.params.id,
                                             FALSE, <<201>>, elig, act, act.visit)
                                        EXCEPT !.body = body]

NextBilling ==
    \/ CreateVisit
    \/ AddPrescription
    \/ RecordPaymentRequest

SpecBilling == Init /\ [][NextBilling]_vars

-----------------------------------------------------------------------------
(* Claims about the billing routes (SpecBilling) *)

\* The body lacks amount, paymentMethod or paymentType
Missing(b) ==
    ~b.amountGiven \/ b.paymentMethod = Undefined \/ b.paymentType = Undefined

\* C12: a record-payment request for a stored visit whose body lacks amount,
\* paymentMethod or paymentType is answered 400, and the stored visits
\* (payment records, totals, consultationFeePaid) are left as they were
C12_MissingFieldRejected ==
    [][ Handles("payments") /\ Exists(last'.id) /\ Missing(last'.body)
        => last'.codes = <<400>> /\ visits' = visits ]_vars

C12_Witness ==
    /\ last.route = "payments"
    /\ Exists(last.id)
    /\ last.body.amountGiven
    /\ last.body.amount = 30
    /\ last.body.paymentMethod = "cash"
    /\ last.body.paymentType = Undefined
    /\ last.codes = <<400>>
    /\ Len(visits[last.id].paymentRecords) = 1
    /\ visits[last.id].totalPaid = 30

\* C13: every payment record the record-payment route has stored has
\* amount > 0
C13_PersistedAmountsPositive ==
    \A i \in DOMAIN visits :
       \A k \in DOMAIN visits[i].paymentRecords :
          visits[i].paymentRecords[k].amount > 0

\* C18: a prescription request that passes both gates for an active, In Queue
\* visit of an insured patient, for a medication the catalogue prices at 100,
\* is answered 201 and raises the visit's insuranceCoverage by 70 and its
\* patientResponsibility by 30
C18_InsuredPrescriptionCharged ==
    [][ /\ Handles("prescriptions")
        /\ Exists(last'.id)
        /\ last'.elig.visit = last'.id
        /\ last'.active.visit = last'.id
        /\ Insured(visits[last'.id].patient)
        /\ visits[last'.id].status = "In Queue"
        /\ visits[last'.id].isActive
        /\ ~last'.body.lookupThrows
        /\ MedicationPrice(last'.body.medication) = 100
        => /\ last'.codes = <<201>>
           /\ Len(visits'[last'.id].serviceCharges)
                 = Len(visits[last'.id].serviceCharges) + 1
           /\ visits'[last'.id].insuranceCoverage
                 = visits[last'.id].insuranceCoverage + 70
           /\ visits'[last'.id].patientResponsibility
                 = visits[last'.id].patientResponsibility + 30 ]_vars

-----------------------------------------------------------------------------
(* SpecOrders: creating visits and ordering lab tests, through the visits    *)
(* router and through the lab test controller                                *)

MaxOrders == 3

\* The charge step of createLabTest: visit.addServiceCharge and visit.save()
\* when a price was found; the document as it is stored afterwards
\* Variant: the charge is added whatever the price
chargeAlways(visit, servicePrice, hasInsurance) ==
    addServiceCharge(visit,
      [ serviceType  |-> "lab_test",
        price        |-> servicePrice,
        quantity     |-> 1,
        hasInsurance |-> hasInsurance,
        insuranceCoveragePercentage |-> IF hasInsurance THEN 80 ELSE 0 ])

chargeIfPriceFound(visit, servicePrice, hasInsurance) ==
    IF servicePrice > 0
    THEN addServiceCharge(visit,
           [ serviceType  |-> "lab_test",
             price        |-> servicePrice,
             quantity     |-> 1,
             hasInsurance |-> hasInsurance,
             insuranceCoveragePercentage |-> IF hasInsurance THEN 80 ELSE 0 ])
    ELSE visit

\* The requests of createLabTest: the route has no path id; body.visit is
\* absent (0), names a stored visit or, as Len(visits) + 1, none; body.patient
\* is given or absent; saveThrows tells whether visit.save(), when it is
\* called, rejects
LabTestRequests ==
    [ params : [id : {0}],
      body : [ visit : 0..Len(visits) + 1, visitId : {0},
               testName : TestNames, patient : {"p1", Undefined} ],
      lookupThrows : BOOLEAN,
      saveThrows : BOOLEAN ]

\* createLabTest, behind checkPaymentEligibility
CreateLabTest ==
    /\ nreq < MaxOrders
    /\ nreq' = nreq + 1
    /\ UNCHANGED ledgerVars
    /\ UNCHANGED raceVars
    /\ \E req \in LabTestRequests :
       LET elig == checkPaymentEligibility(req)
           body == [NoBody EXCEPT !.testName = req.body.testName,
                                  !.lookupThrows = req.lookupThrows]
       IN IF elig.code # 0
          THEN /\ last' = [Answer("lab-tests", 0, FALSE, <<elig.code>>, elig,
                                  NoGate, 0)
                             EXCEPT !.body = body]
               /\ UNCHANGED <<visits, labTests>>
          ELSE LET visit == visits[elig.visit]
                   hasInsurance == elig.hasInsurance
                   servicePrice == IF req.lookupThrows THEN 0
                                   ELSE ServicePrice(req.body.testName)
                   labTest == [ testName |-> req.body.testName,
                                patient  |-> req.body.patient,
                                visit    |-> req.body.visit,
                                status   |-> "Pending" ]
               IN IF req.body.patient = Undefined
                  THEN \* LabTest.create rejects with a ValidationError
                       /\ last' = [Answer("lab-tests", 0, FALSE, <<400>>, elig,
                                          NoGate, 0)
                                     EXCEPT !.body = body]
                       /\ UNCHANGED <<visits, labTests>>
                  ELSE IF servicePrice > 0 /\ req.saveThrows
                  THEN \* the LabTest is created, then visit.save() rejects
                       \* and the catch block answers
                       /\ labTests' = Append(labTests, labTest)
                       /\ last' = [Answer("lab-tests", 0, FALSE, <<400>>, elig,
                                          NoGate, 0)
                                     EXCEPT !.body = body]
                       /\ UNCHANGED visits
                  ELSE /\ labTests' = Append(labTests, labTest)
                       /\ visits' = Save(elig.visit,
                                          chargeIfPriceFound(visit, servicePrice,
                                                             hasInsurance))
                       /\ last' = [Answer("lab-tests", 0, FALSE, <<201>>, elig,
                                          NoGate,
                                          IF servicePrice > 0 THEN elig.visit
                                          ELSE 0)
                                     EXCEPT !.body = body]

NextOrders ==
    \/ CreateVisit
    \/ AddLabOrder
    \/ CreateLabTest

SpecOrders == Init /\ [][NextOrders]_vars

-----------------------------------------------------------------------------
(* Claims about ordering lab tests (SpecOrders) *)

\* The step is a lab-orders request answered 201; NewOrder is the order it
\* pushed
OrderStep == Handles("lab-orders") /\ last'.codes = <<201>>
NewOrder ==
    visits'[last'.saved].labOrders[Len(visits'[last'.saved].labOrders)]

\* The step is a createLabTest request that got past the gate and
\* LabTest.create
LabTestStep == Handles("lab-tests") /\ last'.codes = <<201>>

\* The catalogue query threw or matched no service
LookupFailed(b) == b.lookupThrows \/ ServicePrice(b.testName) = 0

\* C15, as stated: when the price lookup fails, the order is created and a
\* service charge is appended to the visit at price 0
C15_ChargeAtPriceZero ==
    [][ /\ OrderStep /\ (ServicePrice(NewOrder.testName) = 0 \/ NewOrder.price = 0)
           => LET before == visits[last'.saved].serviceCharges
                  after  == visits'[last'.saved].serviceCharges
              IN /\ ExtendsByOne(after, before)
                 /\ after[Len(after)].price = 0
        /\ LabTestStep /\ LookupFailed(last'.body)
           => LET before == visits[last'.elig.visit].serviceCharges
                  after  == visits'[last'.elig.visit].serviceCharges
              IN /\ ExtendsByOne(after, before)
                 /\ after[Len(after)].price = 0 ]_vars

\* C15, amended: when the price lookup fails, the order is created (with
\* price 0 on a lab order of the visit) and no service charge is appended:
\* the visit's serviceCharges and totals are left as they were
C15_NoChargeWithoutPrice ==
    [][ /\ OrderStep /\ (ServicePrice(NewOrder.testName) = 0 \/ NewOrder.price = 0)
           => /\ ExtendsByOne(visits'[last'.saved].labOrders,
                              visits[last'.saved].labOrders)
              /\ NewOrder.price = 0
              /\ visits' = [visits EXCEPT ![last'.saved].labOrders =
                                             Append(@, NewOrder)]
        /\ LabTestStep /\ LookupFailed(last'.body)
           => /\ ExtendsByOne(labTests', labTests)
              /\ labTests'[Len(labTests')].testName = last'.body.testName
              /\ visits' = visits ]_vars

C15_Witness ==
    /\ last.route = "lab-tests"
    /\ last.codes = <<201>>
    /\ last.body.lookupThrows
    /\ last.body.testName = "CBC"
    /\ Len(labTests) = 1
    /\ visits[last.elig.visit].serviceCharges = <<>>
    /\ visits[last.elig.visit].totalCharges = 0

-----------------------------------------------------------------------------
(* SpecGate: checkVisitActive on its own, mounted on any route *)

\* The requests the gate can see: each of the three id fields is absent (0),
\* names a stored visit or, as Len(visits) + 1, none
GateRequests ==
    [ params : [id : 0..Len(visits) + 1],
      body : [visit : 0..Len(visits) + 1, visitId : 0..Len(visits) + 1] ]

CheckVisitActive ==
    /\ Handled
    /\ \E req \in GateRequests :
       LET act == checkVisitActive(req)
       IN /\ last' = [Answer("gate", req.params.id, FALSE,
                             IF act.code # 0 THEN <<act.code>> ELSE <<>>,
                             NoGate, act, 0)
                        EXCEPT !.body = [NoBody EXCEPT
                                           !.visit = req.body.visit,
                                           !.visitId = req.body.visitId]]
          /\ UNCHANGED visits

NextGate ==
    \/ CreateVisit
    \/ EndVisit
    \/ CheckVisitActive

SpecGate == Init /\ [][NextGate]_vars

\* The id the request of the last answer resolves to: the path parameter, or
\* else body.visit, or else body.visitId (0: none of them is there)
ResolvedId ==
    IF last.id # 0 THEN last.id
    ELSE IF last.body.visit # 0 THEN last.body.visit
    ELSE last.body.visitId

\* C19: checkVisitActive calls next(), with the loaded visit attached, iff an
\* id is resolved from the path parameter or one of the two body fields, that
\* visit exists and its isActive is true; otherwise it answers 400 (no id),
\* 404 (no such visit) or 400 (inactive visit) and does not call next()
C19_ActiveGate ==
    last.route = "gate" =>
       LET passes == /\ ResolvedId # 0
                     /\ Exists(ResolvedId)
                     /\ visits[ResolvedId].isActive
           next == last.active.code = 0
       IN /\ next <=> passes
          /\ next => last.active.visit = ResolvedId /\ last.codes = <<>>
          /\ ~next =>
                /\ last.active.visit = 0
                /\ last.codes = << IF ResolvedId = 0 THEN 400
                                   ELSE IF ~Exists(ResolvedId) THEN 404
                                   ELSE 400 >>

C19_Witness ==
    /\ last.route = "gate"
    /\ last.id = 0
    /\ last.body.visit = 0
    /\ Exists(last.body.visitId)
    /\ ~visits[last.body.visitId].isActive
    /\ last.codes = <<400>>

-----------------------------------------------------------------------------
(* SpecRace: two requests against one stored visit, each of them a          *)
(* findById, a mutation of the loaded document and a visit.save(), with     *)
(* nothing that orders the two requests between their awaits                *)

Requests == {1, 2}

\* How visit.save() writes a loaded document: the whole document as it is in
\* memory, or only what the request changed ($push of the pushed records,
\* $set of the paths whose value changed)
PersistenceModes == {"overwrite", "per-field"}

ArrayPaths == {"labOrders", "serviceCharges", "paymentRecords"}

\* The records pushed onto an array since it was loaded
Pushed(written, loaded) == SubSeq(written, Len(loaded) + 1, Len(written))

\* Variant: every save writes only what the request changed
saveMerging(mode, stored, loaded, written) ==
    [ f \in DOMAIN stored |->
        IF f \in ArrayPaths THEN stored[f] \o Pushed(written[f], loaded[f])
        ELSE IF written[f] # loaded[f] THEN written[f]
        ELSE stored[f] ]

\* visit.save() of a document loaded as `loaded` and now `written`, over the
\* stored document
save(mode, stored, loaded, written) ==
    IF mode = "overwrite" THEN written
    ELSE [ f \in DOMAIN stored |->
             IF f \in ArrayPaths THEN stored[f] \o Pushed(written[f], loaded[f])
             ELSE IF written[f] # loaded[f] THEN written[f]
             ELSE stored[f] ]

\* What the lab-orders handler does to the loaded document when a price was
\* found
orderLabTest(visit, testName, servicePrice, hasInsurance) ==
    addServiceCharge(
      [visit EXCEPT !.labOrders =
          Append(@, [ testName      |-> testName,
                      status        |-> "Pending",
                      price         |-> servicePrice,
                      paymentStatus |-> IF hasInsurance THEN "insurance_claimed"
                                        ELSE "pending" ])],
      [ serviceType  |-> "lab_test",
        price        |-> servicePrice,
        quantity     |-> 1,
        hasInsurance |-> hasInsurance,
        insuranceCoveragePercentage |-> IF hasInsurance THEN 80 ELSE 0 ])

\* The requests of the race: a lab order for a listed test, or a payment with
\* a valid body; both for visit 1
RaceInputs ==
    [ route : {"lab-orders"}, testName : {"CBC"}, amount : {0},
      paymentType : {Undefined} ]
    \cup
    [ route : {"payments"}, testName : {Undefined}, amount : Amounts,
      paymentType : PaymentTypes ]

\* The state after POST /api/visits has stored visit 1, active and In Queue
InitRace ==
    /\ InitLedgerVars
    /\ \E p \in {"p1", "p2"} :
          visits = <<[NewVisit(p, "In Queue") EXCEPT !.visitId = 1]>>
    /\ last = Answer("none", 0, FALSE, <<>>, NoGate, NoGate, 0)
    /\ nreq = 0
    /\ labTests = <<>>
    /\ reqs = <<>>
    /\ persistence \in PersistenceModes

\* Request r arrives and its findById resolves
Load ==
    /\ \E r \in Requests \ DOMAIN reqs, in \in RaceInputs :
          reqs' = [ q \in DOMAIN reqs \cup {r} |->
                      IF q = r
                      THEN [ pc |-> "loaded", in |-> in, loaded |-> visits[1],
                             written |-> visits[1], ack |-> 0 ]
                      ELSE reqs[q] ]
    /\ UNCHANGED <<ledgerVars, visits, last, nreq, labTests, persistence>>

\* Request r mutates its document, its visit.save() resolves and it answers
Finish ==
    /\ \E r \in DOMAIN reqs :
          /\ reqs[r].pc = "loaded"
          /\ LET in == reqs[r].in
                 loaded == reqs[r].loaded
                 written ==
                     IF in.route = "payments"
                     THEN recordPayment(loaded,
                            [ amount |-> in.amount, paymentMethod |-> "cash",
                              paymentType |-> in.paymentType ])
                     ELSE orderLabTest(loaded, in.testName,
                                       ServicePrice(in.testName),
                                       Truthy(Provider(loaded.patient)))
             IN /\ visits' = [visits EXCEPT
                                ![1] = save(persistence, @, loaded, written)]
                /\ reqs' = [reqs EXCEPT ![r].pc = "done",
                                        ![r].written = written,
                                        ![r].ack = 201]
    /\ UNCHANGED <<ledgerVars, last, nreq, labTests, persistence>>

NextRace == Load \/ Finish

SpecRace == InitRace /\ [][NextRace]_vars

\* The charges and payments a document carries
Appends(d) == Len(d.serviceCharges) + Len(d.paymentRecords)

\* Both requests are done, and both had loaded the same document
Raced ==
    /\ DOMAIN reqs = Requests
    /\ \A r \in Requests : reqs[r].pc = "done"
    /\ reqs[1].loaded = reqs[2].loaded

\* C16: when two charge/payment requests on one visit both load the same
\* document before either saves, both append to their copy and both are
\* answered 201, but with a save that overwrites the stored document the
\* stored visit is the copy of one of them and lacks the other's append
C16_LostAppend ==
    persistence = "overwrite" /\ Raced =>
       /\ \A r \in Requests :
             /\ reqs[r].ack = 201
             /\ Appends(reqs[r].written) = Appends(reqs[r].loaded) + 1
       /\ visits[1] \in {reqs[r].written : r \in Requests}
       /\ Appends(visits[1]) = Appends(reqs[1].loaded) + 1

C16_Witness ==
    /\ persistence = "overwrite"
    /\ Raced
    /\ reqs[1].in.route = "lab-orders"
    /\ reqs[2].in.route = "payments"
    /\ reqs[1].ack = 201 /\ reqs[2].ack = 201
    /\ visits[1] = reqs[1].written
    /\ visits[1].paymentRecords = <<>>
    /\ Len(visits[1].serviceCharges) = 1

-----------------------------------------------------------------------------
(* SpecCreate: POST /api/visits requests handled concurrently; each is its  *)
(* reads, the countDocuments() of the pre-save hook and the insert, with    *)
(* nothing that orders two requests between their awaits                    *)

Creators == {1, 2, 3}

\* pre('save'): the sequence number of the visitId from the count read
\* Variant: only the last binary digit of the sequence number is kept
visitIdTruncated(count) == (count + 1) % 2

visitIdFor(count) == count + 1

\* The request arrives: Visit.findOne for an active visit of the patient and
\* Patient.findById resolve
Arrive ==
    /\ \E r \in Creators \ DOMAIN reqs, patientId \in {"p1", "p2"} :
          reqs' = [ q \in DOMAIN reqs \cup {r} |->
                      IF q # r THEN reqs[q]
                      ELSE [ pc |-> IF ActiveVisitOf(patientId) # {}
                                    THEN "done" ELSE "arrived",
                             patient |-> patientId, count |-> 0, visitId |-> 0,
                             position |-> 0,
                             ack |-> IF ActiveVisitOf(patientId) # {}
                                     THEN 400 ELSE 0 ] ]
    /\ UNCHANGED <<ledgerVars, visits, last, nreq, labTests, persistence>>

\* newVisit.save() runs the pre-save hook: countDocuments() resolves
ReadCount ==
    /\ \E r \in DOMAIN reqs :
          /\ reqs[r].pc = "arrived"
          /\ reqs' = [reqs EXCEPT ![r].pc = "counted",
                                  ![r].count = Len(visits),
                                  ![r].visitId = visitIdFor(Len(visits))]
    /\ UNCHANGED <<ledgerVars, visits, last, nreq, labTests, persistence>>

\* The insert resolves; the unique index on visitId rejects a duplicate and
\* the catch block answers 400
Insert ==
    /\ \E r \in DOMAIN reqs :
          /\ reqs[r].pc = "counted"
          /\ IF \E i \in DOMAIN visits : visits[i].visitId = reqs[r].visitId
             THEN /\ reqs' = [reqs EXCEPT ![r].pc = "done", ![r].ack = 400]
                  /\ UNCHANGED visits
             ELSE /\ visits' =
                       Append(visits,
                         [NewVisit(reqs[r].patient,
                                   IF Truthy(Provider(reqs[r].patient))
                                   THEN "In Queue" ELSE "Pending Payment")
                            EXCEPT !.visitId = reqs[r].visitId])
                  /\ reqs' = [reqs EXCEPT ![r].pc = "done", ![r].ack = 201,
                                          ![r].position = Len(visits) + 1]
    /\ UNCHANGED <<ledgerVars, last, nreq, labTests, persistence>>

NextCreate ==
    \/ Arrive
    \/ ReadCount
    \/ Insert
    \/ EndVisit

SpecCreate == Init /\ [][NextCreate]_vars

\* C17: two creations that read the same count compute the same visitId;
\* two creations of which one read the count after the other's visit was
\* stored compute different visitIds; and no later save changes the visitId
\* of a stored visit
C17_VisitIdFromCount ==
    [][ /\ \A r, q \in DOMAIN reqs' :
             /\ reqs'[r].visitId # 0 /\ reqs'[q].visitId # 0
                /\ reqs'[r].count = reqs'[q].count
                => reqs'[r].visitId = reqs'[q].visitId
             /\ reqs'[r].visitId # 0 /\ reqs'[q].position # 0
                /\ reqs'[r].count >= reqs'[q].position
                => reqs'[r].visitId # reqs'[q].visitId
        /\ \A i \in DOMAIN visits : visits'[i].visitId = visits[i].visitId ]_vars

C17_Witness ==
    /\ DOMAIN reqs = Creators
    /\ reqs[1].count = reqs[2].count
    /\ reqs[1].visitId = reqs[2].visitId
    /\ reqs[1].patient # reqs[2].patient
    /\ reqs[1].ack = 201
    /\ reqs[2].ack = 400
    /\ reqs[3].ack = 201
    /\ reqs[3].count >= reqs[1].position
    /\ Len(visits) = 2
    /\ ~visits[1].isActive

-----------------------------------------------------------------------------
(* Claims about the responses of the visit routes (Spec) *)

\* C23: every request of a visit route is answered by exactly one json()
\* call; end-visit for a visit that does not exist answers 404 and nothing
\* else, and leaves the stored visits as they were
C23_OneResponsePerRequest ==
    [][ nreq' = nreq + 1
        => /\ Len(last'.codes) = 1
           /\ last'.route = "end-visit" /\ ~Exists(last'.id)
              => last'.codes = <<404>> /\ visits' = visits ]_vars

-----------------------------------------------------------------------------
(* Claims about the stored totals under concurrent requests (SpecRace) *)

\* C22: whatever the interleaving of the two requests and whichever way
\* visit.save() writes, the stored visit's totalCharges,
\* patientResponsibility, totalPaid and outstandingBalance are the values
\* recomputed from its stored serviceCharges and paymentRecords
C22_StoredTotalsConsistent ==
    \A i \in DOMAIN visits :
       LET d == visits[i]
           r == calculateFinancials(d)
       IN /\ d.totalCharges = r.totalCharges
          /\ d.patientResponsibility = r.patientResponsibility
          /\ d.totalPaid = r.totalPaid
          /\ d.outstandingBalance = r.outstandingBalance

-----------------------------------------------------------------------------
(* Claims about createLabTest (SpecOrders) *)

\* C21: a createLabTest request either stores both the LabTest and its
\* service charge on the visit and is answered 201, or stores neither and is
\* answered with an error
C21_AllOrNothing ==
    [][ Handles("lab-tests")
        => \/ /\ last'.codes = <<201>>
              /\ ExtendsByOne(labTests', labTests)
              /\ Exists(last'.elig.visit)
              /\ ExtendsByOne(visits'[last'.elig.visit].serviceCharges,
                              visits[last'.elig.visit].serviceCharges)
           \/ /\ last'.codes # <<201>>
              /\ labTests' = labTests
              /\ visits' = visits ]_vars

====
